---- MODULE Spec2Model ----
(***************************************************************************)
(* Model of the slush fund detection engine of                             *)
(* src/Secret/slush_fund_detector.py: the RiskLevel and Alert data model,  *)
(* the eight detectors of SlushFundDetector over a shared pandas DataFrame,*)
(* analyze_account, prioritize_alerts and generate_report.                 *)
(*                                                                         *)
(* Representation.  A DataFrame is a record [cols, rows]: cols is the set  *)
(* of column labels and rows a sequence of functions from cols to cell     *)
(* values.  Text cells are sequences of one-character strings, so that     *)
(* str.lower and str.contains are computed and not looked up.  A date cell *)
(* is either the text the caller supplied, [k |-> "str", m, d], or a       *)
(* parsed timestamp [k |-> "ts", ord] (ord = day number within 2024);      *)
(* pd.to_datetime converts the first into the second and raises on text    *)
(* that is no calendar date.  Amounts are non-negative integers; shares    *)
(* and confidence scores are exact fractions [n, d] in lowest terms (for   *)
(* the sizes modelled, float arithmetic agrees with the exact comparison). *)
(* A float division by a zero total yields NaN, as numpy does.             *)
(* Alert.timestamp is never read by the engine and is not carried in the   *)
(* model's alerts; Alert.description, a constant of alert_type in the      *)
(* detectors, is carried by the alerts handed to generate_report only.     *)
(***************************************************************************)
EXTENDS Integers, Sequences, FiniteSets, TLC

VARIABLES df, orig, account_info, pc, alerts, result, error, ret, clock, reports

vars == <<df, orig, account_info, pc, alerts, result, error, ret, clock, reports>>

(***************************************************************************)
(* Bounds of the model.                                                    *)
(***************************************************************************)
\* Longest alert list handed to prioritize_alerts in SpecSort.
MaxAlerts == 4
\* Most rows of a dataset analysed by analyze_account in Spec.
MaxRows == 4
\* Most rows of a dataset, and most detector calls on it, in SpecCalls.
MaxCallRows == 2
MaxCalls == 3
\* Most rows of a dataset handed to a single detector in SpecDetect.
MaxN == 20
\* Longest alert list handed to generate_report, most calls of it and the
\* last tick of the wall clock in SpecReport.
MaxReportAlerts == 3
MaxReports == 2
MaxClock == 3

(***************************************************************************)
(* Generic helpers.                                                        *)
(***************************************************************************)
Range(s) == {s[i] : i \in 1..Len(s)}

Reverse(s) == [i \in 1..Len(s) |-> s[Len(s) + 1 - i]]

RECURSIVE SumSeq(_)
SumSeq(s) == IF s = <<>> THEN 0 ELSE Head(s) + SumSeq(Tail(s))

RECURSIVE Gcd(_, _)
Gcd(a, b) == IF b = 0 THEN a ELSE Gcd(b, a % b)

\* The exact fraction n/d in lowest terms (d > 0).
Frac(n, d) == LET g == Gcd(n, d) IN [n |-> n \div g, d |-> d \div g]

FracLess(a, b) == a.n * b.d < b.n * a.d

FracMin(a, b) == IF FracLess(b, a) THEN b ELSE a

(***************************************************************************)
(* RiskLevel and Alert.                                                    *)
(***************************************************************************)
LOW == 1
MEDIUM == 2
HIGH == 3
CRITICAL == 4

RiskLevel == {LOW, MEDIUM, HIGH, CRITICAL}

Alert(account_id, alert_type, risk_level, confidence_score, evidence, amount_involved) ==
    [account_id |-> account_id, alert_type |-> alert_type,
     risk_level |-> risk_level, confidence_score |-> confidence_score,
     evidence |-> evidence, amount_involved |-> amount_involved]

(***************************************************************************)
(* prioritize_alerts: sorted(alerts, key = (risk_level.value,              *)
(* confidence_score), reverse = True).  Python's sorted is stable, and     *)
(* with reverse = True it reverses the list, sorts it stably in ascending  *)
(* order and reverses the outcome, so equal keys keep their input order.   *)
(***************************************************************************)
\* Tuple comparison of the sort keys: key(a) <= key(b).
KeyLeq(a, b) ==
    \/ a.risk_level < b.risk_level
    \/ /\ a.risk_level = b.risk_level
       /\ ~FracLess(b.confidence_score, a.confidence_score)

\* Mutant: an alert equal to one already placed is not placed again.
RECURSIVE InsertSorted_unique(_, _)
InsertSorted_unique(s, x) ==
    IF s = <<>> THEN <<x>>
    ELSE IF Head(s) = x THEN s
    ELSE IF KeyLeq(Head(s), x) THEN <<Head(s)>> \o InsertSorted_unique(Tail(s), x)
    ELSE <<x>> \o s

\* x placed behind every element of the sorted s whose key is <= key(x).
RECURSIVE InsertSorted(_, _)
InsertSorted(s, x) ==
    IF s = <<>> THEN <<x>>
    ELSE IF KeyLeq(Head(s), x) THEN <<Head(s)>> \o InsertSorted(Tail(s), x)
    ELSE <<x>> \o s

RECURSIVE StableSortAsc(_)
StableSortAsc(s) ==
    IF s = <<>> THEN <<>>
    ELSE InsertSorted(StableSortAsc(SubSeq(s, 1, Len(s) - 1)), s[Len(s)])

\* Mutant: reverse = True left out, the list comes back ascending.
prioritize_alerts_ascending(list) == StableSortAsc(list)

\* Mutant: sorted ascending and then reversed, which turns equal keys around.
prioritize_alerts_unstable(list) == Reverse(StableSortAsc(list))

prioritize_alerts(list) == Reverse(StableSortAsc(Reverse(list)))

suspicious_keywords ==
    <<
       <<"c","o","n","s","u","l","t","i","n","g">>,
       <<"a","d","v","i","s","o","r","y">>,
       <<"s","e","r","v","i","c","e","s">>,
       <<"m","i","s","c">>,
       <<"m","i","s","c","e","l","l","a","n","e","o","u","s">>,
       <<"g","e","n","e","r","a","l">>,
       <<"e","x","p","e","n","s","e","s">>,
       <<"p","e","t","t","y"," ","c","a","s","h">>,
       <<"d","i","s","c","r","e","t","i","o","n","a","r","y">>,
       <<"c","o","n","t","i","n","g","e","n","c","y">>,
       <<"e","m","e","r","g","e","n","c","y">>,
       <<"s","p","e","c","i","a","l"," ","p","r","o","j","e","c","t","s">>,
       <<"u","n","d","e","f","i","n","e","d">>,
       <<"v","a","r","i","o","u","s">>,
       <<"e","n","t","e","r","t","a","i","n","m","e","n","t">>,
       <<"r","e","p","r","e","s","e","n","t","a","t","i","o","n">>,
       <<"g","o","o","d","w","i","l","l">>,
       <<"h","o","s","p","i","t","a","l","i","t","y">>
    >>
(***************************************************************************)
(* Text cells: str.lower, str.contains and str.extract over sequences of   *)
(* characters.                                                             *)
(***************************************************************************)
UpperChars ==
    <<"A","B","C","D","E","F","G","H","I","J","K","L","M",
      "N","O","P","Q","R","S","T","U","V","W","X","Y","Z">>

LowerChars ==
    <<"a","b","c","d","e","f","g","h","i","j","k","l","m",
      "n","o","p","q","r","s","t","u","v","w","x","y","z">>

LowerOf == [i \in 1..Len(UpperChars) |-> LowerChars[i]]

UpperIndex == [c \in Range(UpperChars) |-> CHOOSE i \in 1..Len(UpperChars) : UpperChars[i] = c]

LowerChar(c) == IF c \in DOMAIN UpperIndex THEN LowerOf[UpperIndex[c]] ELSE c

\* str.lower()
StrLower(s) == [i \in 1..Len(s) |-> LowerChar(s[i])]

\* pat occurs in s at position p.
MatchesAt(s, pat, p) ==
    /\ p + Len(pat) - 1 <= Len(s)
    /\ \A j \in 1..Len(pat) : s[p + j - 1] = pat[j]

\* re.search of the alternation pats[1]|pats[2]|... in s.
ContainsAny(s, pats) ==
    \E k \in 1..Len(pats) :
        \E p \in 1..(Len(s) - Len(pats[k]) + 1) : MatchesAt(s, pats[k], p)

\* str.extract('(' + alternation + ')'): the leftmost match, and at that
\* position the first alternative of the pattern that matches.
ExtractFirst(s, pats) ==
    LET ps == {p \in 1..Len(s) : \E k \in 1..Len(pats) : MatchesAt(s, pats[k], p)}
        p0 == CHOOSE p \in ps : \A q \in ps : p <= q
        k0 == CHOOSE k \in 1..Len(pats) :
                  /\ MatchesAt(s, pats[k], p0)
                  /\ \A j \in 1..(k - 1) : ~MatchesAt(s, pats[j], p0)
    IN  pats[k0]

(***************************************************************************)
(* Dates.  The calendar of 2024; a timestamp is the day number in it.      *)
(***************************************************************************)
MonthLen == <<31, 29, 31, 30, 31, 30, 31, 31, 30, 31, 30, 31>>

RECURSIVE DaysBefore(_)
DaysBefore(m) == IF m = 1 THEN 0 ELSE DaysBefore(m - 1) + MonthLen[m - 1]

DateStr(m, d) == [k |-> "str", m |-> m, d |-> d]
Timestamp(ord) == [k |-> "ts", ord |-> ord]

\* Text that pd.to_datetime can read as a calendar date.
Parseable(cell) ==
    /\ cell.k = "str"
    /\ cell.m \in 1..12
    /\ cell.d \in 1..MonthLen[cell.m]

\* pd.to_datetime on one cell that it accepts.
to_datetime(cell) ==
    IF cell.k = "ts" THEN cell
    ELSE Timestamp(DaysBefore(cell.m) + cell.d)

\* .dt.month and .dt.day of a timestamp.
MonthOf(ts) ==
    CHOOSE m \in 1..12 : DaysBefore(m) < ts.ord /\ ts.ord <= DaysBefore(m) + MonthLen[m]

DayOf(ts) == ts.ord - DaysBefore(MonthOf(ts))

(***************************************************************************)
(* Exceptions.                                                             *)
(***************************************************************************)
NoColumn == "-"
NoValue == [k |-> "none"]

NoError == [type |-> "none", column |-> NoColumn, value |-> NoValue]

\* df['c'] on a frame without column c.
KeyError(c) == [type |-> "KeyError", column |-> c, value |-> NoValue]

\* The parser's ValueError of pd.to_datetime: its message quotes the text it
\* could not read, and says nothing of the column the text came from.
DateParseError(cell) == [type |-> "ValueError", column |-> NoColumn, value |-> cell]

IndexError == [type |-> "IndexError", column |-> NoColumn, value |-> NoValue]

(***************************************************************************)
(* DataFrame helpers.                                                      *)
(***************************************************************************)
Column(frame, c) == [i \in 1..Len(frame.rows) |-> frame.rows[i][c]]

\* df[c] = values: the column is added, or overwritten, in place.
SetColumn(frame, c, values) ==
    [cols |-> frame.cols \cup {c},
     rows |-> [i \in 1..Len(frame.rows) |->
                 [x \in frame.cols \cup {c} |->
                     IF x = c THEN values[i] ELSE frame.rows[i][x]]]]

SumAmount(rows) == SumSeq([i \in 1..Len(rows) |-> rows[i]["amount"]])

\* How many cells of the sequence equal v.
Count(s, v) == Cardinality({i \in 1..Len(s) : s[i] = v})

\* The values of s without repetition, in order of first occurrence.
RECURSIVE Distinct(_)
Distinct(s) ==
    IF s = <<>> THEN <<>>
    ELSE LET init == SubSeq(s, 1, Len(s) - 1)
             last == s[Len(s)]
         IN  IF last \in Range(init) THEN Distinct(init)
             ELSE Distinct(init) \o <<last>>

\* Ascending sort of a sequence of integers.
RECURSIVE InsertNat(_, _)
InsertNat(s, x) ==
    IF s = <<>> THEN <<x>>
    ELSE IF Head(s) <= x THEN <<Head(s)>> \o InsertNat(Tail(s), x)
    ELSE <<x>> \o s

RECURSIVE SortNat(_)
SortNat(s) ==
    IF s = <<>> THEN <<>>
    ELSE InsertNat(SortNat(SubSeq(s, 1, Len(s) - 1)), s[Len(s)])

\* What a detector hands back: the alerts it returns, or the exception it
\* raises, and the frame as the call leaves it.
Returns(list, frame) == [alerts |-> list, error |-> NoError, df |-> frame]
Raises(err, frame) == [alerts |-> <<>>, error |-> err, df |-> frame]

\* df['date'] = pd.to_datetime(df['date']); raises on the first cell it
\* cannot read and then leaves the frame as it was.
DateUnreadable(frame) ==
    \E i \in 1..Len(frame.rows) :
        LET cell == frame.rows[i]["date"] IN cell.k # "ts" /\ ~Parseable(cell)

FirstUnreadable(frame) ==
    LET bad == {i \in 1..Len(frame.rows) :
                   LET cell == frame.rows[i]["date"]
                   IN  cell.k # "ts" /\ ~Parseable(cell)}
    IN  frame.rows[CHOOSE i \in bad : \A j \in bad : i <= j]["date"]

ParseDateColumn(frame) ==
    SetColumn(frame, "date",
              [i \in 1..Len(frame.rows) |-> to_datetime(frame.rows[i]["date"])])

(***************************************************************************)
(* The eight detectors.  Each takes the shared frame and the account id    *)
(* and gives Returns(alerts, frame') or Raises(error, frame').             *)
(***************************************************************************)
IsRound(x) == x % 100 = 0 \/ x % 50 = 0

\* Mutant: MEDIUM up to and including a round share of 80%.
detect_round_number_patterns_medium_at_80(frame, account_id) ==
    IF "amount" \notin frame.cols THEN Raises(KeyError("amount"), frame)
    ELSE
    LET round_numbers == SelectSeq(frame.rows, LAMBDA r : IsRound(r["amount"]))
        total_transactions == Len(frame.rows)
    IN  IF total_transactions > 10
           /\ 5 * Len(round_numbers) > 3 * total_transactions
        THEN LET round_percentage == Frac(Len(round_numbers), total_transactions)
             IN  Returns(
                   <<Alert(account_id, "Round Number Pattern",
                           IF 5 * Len(round_numbers) <= 4 * total_transactions
                           THEN MEDIUM ELSE HIGH,
                           FracMin(Frac(100 * Len(round_numbers), total_transactions),
                                   Frac(95, 1)),
                           <<Len(round_numbers), total_transactions, round_percentage>>,
                           SumAmount(round_numbers))>>,
                   frame)
        ELSE Returns(<<>>, frame)

\* Mutant: the share taken in percent and multiplied by 100 again, and not
\* capped.
detect_round_number_patterns_unclamped(frame, account_id) ==
    IF "amount" \notin frame.cols THEN Raises(KeyError("amount"), frame)
    ELSE
    LET round_numbers == SelectSeq(frame.rows, LAMBDA r : IsRound(r["amount"]))
        total_transactions == Len(frame.rows)
    IN  IF total_transactions > 10
           /\ 5 * Len(round_numbers) > 3 * total_transactions
        THEN LET round_percentage == Frac(Len(round_numbers), total_transactions)
             IN  Returns(
                   <<Alert(account_id, "Round Number Pattern",
                           IF 5 * Len(round_numbers) < 4 * total_transactions
                           THEN MEDIUM ELSE HIGH,
                           Frac(100 * 100 * Len(round_numbers), total_transactions),
                           <<Len(round_numbers), total_transactions, round_percentage>>,
                           SumAmount(round_numbers))>>,
                   frame)
        ELSE Returns(<<>>, frame)

detect_round_number_patterns(frame, account_id) ==
    IF "amount" \notin frame.cols THEN Raises(KeyError("amount"), frame)
    ELSE
    LET round_numbers == SelectSeq(frame.rows, LAMBDA r : IsRound(r["amount"]))
        total_transactions == Len(frame.rows)
    IN  IF total_transactions > 10
           /\ 5 * Len(round_numbers) > 3 * total_transactions
        THEN LET round_percentage == Frac(Len(round_numbers), total_transactions)
             IN  Returns(
                   <<Alert(account_id, "Round Number Pattern",
                           IF 5 * Len(round_numbers) < 4 * total_transactions
                           THEN MEDIUM ELSE HIGH,
                           FracMin(Frac(100 * Len(round_numbers), total_transactions),
                                   Frac(95, 1)),
                           <<Len(round_numbers), total_transactions, round_percentage>>,
                           SumAmount(round_numbers))>>,
                   frame)
        ELSE Returns(<<>>, frame)

IsVague(description) == ContainsAny(StrLower(description), suspicious_keywords)

\* value_counts() of the description column, restricted to the counts above
\* 5 and cut to its first 5 entries: most frequent first (equal counts in
\* order of first occurrence).
RECURSIVE InsertByCount(_, _)
InsertByCount(s, x) ==
    IF s = <<>> THEN <<x>>
    ELSE IF Head(s)[2] >= x[2] THEN <<Head(s)>> \o InsertByCount(Tail(s), x)
    ELSE <<x>> \o s

RECURSIVE SortByCount(_)
SortByCount(s) ==
    IF s = <<>> THEN <<>>
    ELSE InsertByCount(SortByCount(SubSeq(s, 1, Len(s) - 1)), s[Len(s)])

RepeatedDescriptions(frame) ==
    LET descs == Column(frame, "description")
        keys == Distinct(descs)
        description_counts == SortByCount([i \in 1..Len(keys) |-> <<keys[i], Count(descs, keys[i])>>])
    IN  SelectSeq(description_counts, LAMBDA e : e[2] > 5)

Head5(s) == SubSeq(s, 1, IF Len(s) < 5 THEN Len(s) ELSE 5)

detect_suspicious_descriptions(frame, account_id) ==
    IF "description" \notin frame.cols THEN Returns(<<>>, frame)
    ELSE
    LET vague_descriptions == SelectSeq(frame.rows, LAMBDA r : IsVague(r["description"]))
        vagueFires == 10 * Len(vague_descriptions) > 3 * Len(frame.rows)
        repeated_descriptions == RepeatedDescriptions(frame)
        vagueAlert ==
            Alert(account_id, "Vague Transaction Descriptions", MEDIUM, Frac(75, 1),
                  <<Len(vague_descriptions),
                    {ExtractFirst(StrLower(vague_descriptions[i]["description"]),
                                  suspicious_keywords) : i \in 1..Len(vague_descriptions)}>>,
                  SumAmount(vague_descriptions))
        repeatedAlert ==
            Alert(account_id, "Repeated Transaction Descriptions", MEDIUM, Frac(60, 1),
                  Head5(repeated_descriptions), 0)
    IN  IF vagueFires /\ "amount" \notin frame.cols
        THEN Raises(KeyError("amount"), frame)
        ELSE Returns((IF vagueFires THEN <<vagueAlert>> ELSE <<>>)
                     \o (IF Len(repeated_descriptions) > 0 THEN <<repeatedAlert>> ELSE <<>>),
                     frame)

\* Mutant: the thresholds walked in ascending order.
thresholds_ascending == <<1000, 3000, 5000, 10000>>

thresholds == <<10000, 5000, 3000, 1000>>

\* Mutant: the lower end of the band left out, every amount below the
\* threshold selected.
NearThreshold_below(frame, threshold) ==
    SelectSeq(frame.rows, LAMBDA r : r["amount"] < threshold)

\* The rows with threshold * 0.9 <= amount < threshold.
NearThreshold(frame, threshold) ==
    SelectSeq(frame.rows,
              LAMBDA r : 10 * r["amount"] >= 9 * threshold /\ r["amount"] < threshold)

RECURSIVE ThresholdAlerts(_, _, _)
ThresholdAlerts(frame, account_id, i) ==
    IF i > Len(thresholds) THEN <<>>
    ELSE LET threshold == thresholds[i]
             near_threshold == NearThreshold(frame, threshold)
         IN  (IF Len(near_threshold) > 3
              THEN <<Alert(account_id, "Threshold Avoidance",
                           IF threshold >= 10000 THEN HIGH ELSE MEDIUM,
                           Frac(80, 1),
                           <<Len(near_threshold), threshold, SumAmount(near_threshold)>>,
                           SumAmount(near_threshold))>>
              ELSE <<>>)
             \o ThresholdAlerts(frame, account_id, i + 1)

detect_threshold_avoidance(frame, account_id) ==
    IF "amount" \notin frame.cols THEN Raises(KeyError("amount"), frame)
    ELSE Returns(ThresholdAlerts(frame, account_id, 1), frame)

\* The rows of df_sorted whose days_since_last is <= 1 (the first row's is
\* NaN and compares False).
RecentActivity(frame) ==
    LET days == SortNat([i \in 1..Len(frame.rows) |-> frame.rows[i]["date"].ord])
    IN  Cardinality({i \in 2..Len(days) : days[i] - days[i - 1] <= 1})

\* Mutant: the burst test written with >= instead of >.
detect_unusual_frequency_patterns_inclusive(frame, account_id) ==
    IF "date" \notin frame.cols THEN Returns(<<>>, frame)
    ELSE IF DateUnreadable(frame) THEN Raises(DateParseError(FirstUnreadable(frame)), frame)
    ELSE
    LET parsed == ParseDateColumn(frame)
        recent_activity == RecentActivity(parsed)
    IN  IF 5 * recent_activity >= 2 * Len(parsed.rows)
        THEN Returns(<<Alert(account_id, "Burst Transaction Pattern", MEDIUM, Frac(65, 1),
                             <<recent_activity>>, 0)>>, parsed)
        ELSE Returns(<<>>, parsed)

detect_unusual_frequency_patterns(frame, account_id) ==
    IF "date" \notin frame.cols THEN Returns(<<>>, frame)
    ELSE IF DateUnreadable(frame) THEN Raises(DateParseError(FirstUnreadable(frame)), frame)
    ELSE
    LET parsed == ParseDateColumn(frame)
        recent_activity == RecentActivity(parsed)
    IN  IF 5 * recent_activity > 2 * Len(parsed.rows)
        THEN Returns(<<Alert(account_id, "Burst Transaction Pattern", MEDIUM, Frac(65, 1),
                             <<recent_activity>>, 0)>>, parsed)
        ELSE Returns(<<>>, parsed)

\* Mutant: the month-end selection made in place, so that the shared frame
\* keeps only the rows of the last days of a month.
detect_end_of_period_activities_inplace(frame, account_id) ==
    IF "date" \notin frame.cols THEN Returns(<<>>, frame)
    ELSE IF DateUnreadable(frame) THEN Raises(DateParseError(FirstUnreadable(frame)), frame)
    ELSE
    LET parsed == ParseDateColumn(frame)
        withDay == SetColumn(parsed, "day_of_month",
                             [i \in 1..Len(parsed.rows) |-> DayOf(parsed.rows[i]["date"])])
        derived == SetColumn(withDay, "month",
                             [i \in 1..Len(withDay.rows) |-> MonthOf(withDay.rows[i]["date"])])
        end_of_month == SelectSeq(derived.rows, LAMBDA r : r["day_of_month"] >= 28)
        quarter_ends == SelectSeq(derived.rows, LAMBDA r : r["month"] \in {3, 6, 9, 12})
        monthFires == 4 * Len(end_of_month) > Len(derived.rows)
        monthAlert ==
            Alert(account_id, "End-of-Period Clustering", MEDIUM, Frac(70, 1),
                  <<Len(end_of_month), Frac(Len(end_of_month), Len(derived.rows))>>,
                  SumAmount(end_of_month))
        quarterAlert ==
            Alert(account_id, "Quarter-End Pattern", MEDIUM, Frac(65, 1),
                  <<Len(quarter_ends)>>, 0)
    IN  IF monthFires /\ "amount" \notin derived.cols
        THEN Raises(KeyError("amount"), [derived EXCEPT !.rows = end_of_month])
        ELSE Returns((IF monthFires THEN <<monthAlert>> ELSE <<>>)
                     \o (IF 5 * Len(quarter_ends) > 2 * Len(derived.rows)
                         THEN <<quarterAlert>> ELSE <<>>),
                     [derived EXCEPT !.rows = end_of_month])

detect_end_of_period_activities(frame, account_id) ==
    IF "date" \notin frame.cols THEN Returns(<<>>, frame)
    ELSE IF DateUnreadable(frame) THEN Raises(DateParseError(FirstUnreadable(frame)), frame)
    ELSE
    LET parsed == ParseDateColumn(frame)
        withDay == SetColumn(parsed, "day_of_month",
                             [i \in 1..Len(parsed.rows) |-> DayOf(parsed.rows[i]["date"])])
        derived == SetColumn(withDay, "month",
                             [i \in 1..Len(withDay.rows) |-> MonthOf(withDay.rows[i]["date"])])
        end_of_month == SelectSeq(derived.rows, LAMBDA r : r["day_of_month"] >= 28)
        quarter_ends == SelectSeq(derived.rows, LAMBDA r : r["month"] \in {3, 6, 9, 12})
        monthFires == 4 * Len(end_of_month) > Len(derived.rows)
        monthAlert ==
            Alert(account_id, "End-of-Period Clustering", MEDIUM, Frac(70, 1),
                  <<Len(end_of_month), Frac(Len(end_of_month), Len(derived.rows))>>,
                  SumAmount(end_of_month))
        quarterAlert ==
            Alert(account_id, "Quarter-End Pattern", MEDIUM, Frac(65, 1),
                  <<Len(quarter_ends)>>, 0)
    IN  IF monthFires /\ "amount" \notin derived.cols
        THEN Raises(KeyError("amount"), derived)
        ELSE Returns((IF monthFires THEN <<monthAlert>> ELSE <<>>)
                     \o (IF 5 * Len(quarter_ends) > 2 * Len(derived.rows)
                         THEN <<quarterAlert>> ELSE <<>>),
                     derived)

\* The result of a float division by a zero total.
NaN == [n |-> 0, d |-> 0]

Share(part, total) == IF total = 0 THEN NaN ELSE Frac(part, total)

\* share > num/den, False for NaN as every comparison with NaN is.
ShareAbove(share, num, den) == share # NaN /\ share.n * den > num * share.d

\* groupby('counterparty')['amount'].sum(): the total of each counterparty.
AmountOf(frame, counterparty) ==
    SumAmount(SelectSeq(frame.rows, LAMBDA r : r["counterparty"] = counterparty))

\* f"{share:.2%}": the share in hundredths of a percent, rounded to the
\* nearest (a tie goes to the even one).
Percent2(share) ==
    LET q == (share.n * 10000) \div share.d
        r == (share.n * 10000) % share.d
    IN  IF 2 * r > share.d \/ (2 * r = share.d /\ q % 2 = 1) THEN q + 1 ELSE q

\* Mutant: the counterparty with the most transactions (the head of
\* counterparty_counts) taken for the one with the largest total.
TopCounterparty_by_count(frame) ==
    LET names == Range(Column(frame, "counterparty"))
        cells == Column(frame, "counterparty")
    IN  CHOOSE c \in names : \A o \in names : Count(cells, o) <= Count(cells, c)

\* total_amount_by_counterparty.index[0] after sort_values(ascending=False):
\* a counterparty whose total no other exceeds.
TopCounterparty(frame) ==
    LET names == Range(Column(frame, "counterparty"))
    IN  CHOOSE c \in names : \A o \in names : AmountOf(frame, o) <= AmountOf(frame, c)

\* Mutant: the test len(counterparty_counts) > 0 left out, so that iloc[0]
\* is taken of an empty series.
detect_unusual_counterparties_unguarded(frame, account_id) ==
    IF "counterparty" \notin frame.cols THEN Returns(<<>>, frame)
    ELSE IF "amount" \notin frame.cols THEN Raises(KeyError("amount"), frame)
    ELSE IF Len(frame.rows) = 0 THEN Raises(IndexError, frame)
    ELSE
    LET top == TopCounterparty(frame)
        top_counterparty_share == Share(AmountOf(frame, top), SumAmount(frame.rows))
    IN  IF ShareAbove(top_counterparty_share, 1, 2)
        THEN Returns(<<Alert(account_id, "Counterparty Concentration", HIGH,
                             Frac(80, 1), <<Percent2(top_counterparty_share), top>>,
                             AmountOf(frame, top))>>, frame)
        ELSE Returns(<<>>, frame)

detect_unusual_counterparties(frame, account_id) ==
    IF "counterparty" \notin frame.cols THEN Returns(<<>>, frame)
    ELSE IF "amount" \notin frame.cols THEN Raises(KeyError("amount"), frame)
    ELSE
    LET counterparty_counts == Distinct(Column(frame, "counterparty"))
    IN  IF Len(counterparty_counts) > 0
        THEN LET top == TopCounterparty(frame)
                 top_counterparty_share == Share(AmountOf(frame, top), SumAmount(frame.rows))
             IN  IF ShareAbove(top_counterparty_share, 1, 2)
                 THEN Returns(<<Alert(account_id, "Counterparty Concentration", HIGH,
                                      Frac(80, 1), <<Percent2(top_counterparty_share), top>>,
                                      AmountOf(frame, top))>>, frame)
                 ELSE Returns(<<>>, frame)
        ELSE Returns(<<>>, frame)

\* Mutant: the pattern written without its atm alternative.
CashPatterns_without_atm ==
    << <<"c","a","s","h">>, <<"w","i","t","h","d","r","a","w","a","l">> >>

CashPatterns ==
    << <<"c","a","s","h">>, <<"a","t","m">>,
       <<"w","i","t","h","d","r","a","w","a","l">> >>

\* str.contains('cash|atm|withdrawal', case=False)
IsCashLike(transaction_type) == ContainsAny(StrLower(transaction_type), CashPatterns)

detect_cash_intensive_patterns(frame, account_id) ==
    IF "transaction_type" \notin frame.cols THEN Returns(<<>>, frame)
    ELSE
    LET cash_transactions ==
            SelectSeq(frame.rows, LAMBDA r : IsCashLike(r["transaction_type"]))
    IN  IF Len(cash_transactions) > 0
        THEN IF "amount" \notin frame.cols THEN Raises(KeyError("amount"), frame)
             ELSE
             LET cash_percentage == Frac(Len(cash_transactions), Len(frame.rows))
                 cash_amount_percentage ==
                     Share(SumAmount(cash_transactions), SumAmount(frame.rows))
             IN  IF \/ ShareAbove(cash_percentage, 3, 10)
                    \/ ShareAbove(cash_amount_percentage, 2, 5)
                 THEN Returns(<<Alert(account_id, "High Cash Activity",
                                      IF ShareAbove(cash_amount_percentage, 3, 5)
                                      THEN HIGH ELSE MEDIUM,
                                      Frac(75, 1),
                                      <<cash_percentage, cash_amount_percentage,
                                        SumAmount(cash_transactions)>>,
                                      SumAmount(cash_transactions))>>, frame)
                 ELSE Returns(<<>>, frame)
        ELSE Returns(<<>>, frame)

Deposit == <<"d","e","p","o","s","i","t">>
Withdrawal == <<"w","i","t","h","d","r","a","w","a","l">>

\* Mutant: the transactions of the type counted, their amounts not summed.
DailyAmount_count(frame, day, transaction_type) ==
    Len(SelectSeq(frame.rows,
                  LAMBDA r : r["date"].ord = day
                             /\ r["transaction_type"] = transaction_type))

\* daily_activity[transaction_type] at one day: the amounts of that type
\* summed over the day (0 where the day has none: fill_value = 0).
DailyAmount(frame, day, transaction_type) ==
    SumAmount(SelectSeq(frame.rows,
                        LAMBDA r : r["date"].ord = day
                                   /\ r["transaction_type"] = transaction_type))

detect_layering_patterns(frame, account_id) ==
    IF "date" \notin frame.cols \/ "transaction_type" \notin frame.cols
    THEN Returns(<<>>, frame)
    ELSE IF DateUnreadable(frame) THEN Raises(DateParseError(FirstUnreadable(frame)), frame)
    ELSE
    LET parsed == ParseDateColumn(frame)
    IN  IF "amount" \notin parsed.cols THEN Raises(KeyError("amount"), parsed)
        ELSE
        LET days == {parsed.rows[i]["date"].ord : i \in 1..Len(parsed.rows)}
            types == Range(Column(parsed, "transaction_type"))
            same_day_activity ==
                {day \in days : /\ DailyAmount(parsed, day, Deposit) > 0
                                /\ DailyAmount(parsed, day, Withdrawal) > 0}
        IN  IF /\ Deposit \in types
               /\ Withdrawal \in types
               /\ 10 * Cardinality(same_day_activity) > 3 * Cardinality(days)
            THEN Returns(<<Alert(account_id, "Layering Pattern", HIGH, Frac(85, 1),
                                 <<Cardinality(same_day_activity)>>, 0)>>, parsed)
            ELSE Returns(<<>>, parsed)

(***************************************************************************)
(* analyze_account: the eight detectors in the order of the calls, their   *)
(* lists appended to one list, which prioritize_alerts then sorts.  An     *)
(* exception of a detector is not caught and ends the call.                *)
(***************************************************************************)
\* Mutant: the calls of detect_threshold_avoidance and
\* detect_unusual_counterparties exchanged.
DetectorOrderExchanged ==
    <<"round_number", "description", "frequency", "counterparty",
      "end_of_period", "threshold_avoidance", "cash_intensity", "layering">>

DetectorOrder ==
    <<"round_number", "description", "frequency", "threshold_avoidance",
      "end_of_period", "counterparty", "cash_intensity", "layering">>

Detectors == Range(DetectorOrder)

Detect(name, frame, account_id) ==
    CASE name = "round_number" -> detect_round_number_patterns(frame, account_id)
      [] name = "description" -> detect_suspicious_descriptions(frame, account_id)
      [] name = "frequency" -> detect_unusual_frequency_patterns(frame, account_id)
      [] name = "threshold_avoidance" -> detect_threshold_avoidance(frame, account_id)
      [] name = "end_of_period" -> detect_end_of_period_activities(frame, account_id)
      [] name = "counterparty" -> detect_unusual_counterparties(frame, account_id)
      [] name = "cash_intensity" -> detect_cash_intensive_patterns(frame, account_id)
      [] name = "layering" -> detect_layering_patterns(frame, account_id)

\* account_info.get('account_id', 'unknown')
AccountId(info) == IF "account_id" \in DOMAIN info THEN info["account_id"] ELSE "unknown"

NotRun == [status |-> "not_run", alerts |-> <<>>, error |-> NoError]

\* What the caller of a detector observes.
Observed(r) ==
    [status |-> IF r.error = NoError THEN "returned" ELSE "raised",
     alerts |-> r.alerts, error |-> r.error]

(***************************************************************************)
(* Inputs.                                                                 *)
(***************************************************************************)
AllColumns == {"date", "amount", "description", "counterparty", "transaction_type"}

Row(date, amount, description, counterparty, transaction_type) ==
    [c \in AllColumns |->
        CASE c = "date" -> date
          [] c = "amount" -> amount
          [] c = "description" -> description
          [] c = "counterparty" -> counterparty
          [] c = "transaction_type" -> transaction_type]

Str_Misc == <<"M","i","s","c">>
Str_Rent == <<"R","e","n","t">>
Str_ATM == <<"A","T","M">>

\* The transactions the datasets of Spec are made of; the last one carries a
\* date that is no calendar date (30 February).
RowPalette ==
    { Row(DateStr(3, 30), 9500, Str_Misc, "A", Deposit),
      Row(DateStr(3, 30), 9500, Str_Rent, "A", Withdrawal),
      Row(DateStr(7, 15), 120, Str_Rent, "B", Str_ATM),
      Row(DateStr(2, 30), 40, Str_Misc, "B", Deposit) }

SeqsUpTo(S, n) == UNION {[1..k -> S] : k \in 0..n}

\* The frame with the given columns only.
Frame(cols, rows) ==
    [cols |-> cols,
     rows |-> [i \in 1..Len(rows) |-> [c \in cols |-> rows[i][c]]]]

\* All five columns, or all but one.
ColumnSets == {AllColumns} \cup {AllColumns \ {c} : c \in AllColumns}

Datasets == {Frame(cols, rows) : cols \in ColumnSets, rows \in SeqsUpTo(RowPalette, MaxRows)}

AccountInfos ==
    { [account_id |-> "ACC-12345", account_type |-> "Business Checking"],
      [account_type |-> "Business Checking"] }

\* The alerts the lists of SpecSort are made of.
AlertPalette ==
    { Alert("ACC-1", "first", MEDIUM, Frac(70, 1), <<>>, 0),
      Alert("ACC-1", "first", HIGH, Frac(60, 1), <<>>, 0),
      Alert("ACC-1", "second", HIGH, Frac(60, 1), <<>>, 0),
      Alert("ACC-1", "first", LOW, Frac(90, 1), <<>>, 0),
      Alert("ACC-1", "second", LOW, Frac(90, 1), <<>>, 0),
      Alert("ACC-1", "first", CRITICAL, Frac(60, 1), <<>>, 0),
      Alert("ACC-1", "first", HIGH, Frac(90, 1), <<>>, 0) }

EmptyFrame == Frame(AllColumns, <<>>)

(***************************************************************************)
(* Spec: analyze_account(transactions_df, account_info) on one dataset.    *)
(* pc is where the method is: At("call", i) before its i-th detector call, *)
(* At("return", 0) before the return statement, At("returned", 0) or       *)
(* At("raised", 0) once it has ended.                                      *)
(***************************************************************************)
At(label, i) == [at |-> label, i |-> i]

Init ==
    /\ df \in Datasets
    /\ orig = df
    /\ account_info \in AccountInfos
    /\ pc = At("call", 1)
    /\ alerts = <<>>
    /\ result = <<>>
    /\ error = NoError
    /\ ret = [d \in Detectors |-> NotRun]
    /\ clock = 0
    /\ reports = <<>>

\* alerts.extend(self.detect_...(transactions_df, account_id))
RunDetector ==
    /\ pc.at = "call"
    /\ LET name == DetectorOrder[pc.i]
           r == Detect(name, df, AccountId(account_info))
       IN  /\ df' = r.df
           /\ ret' = [ret EXCEPT ![name] = Observed(r)]
           /\ IF r.error = NoError
              THEN /\ alerts' = alerts \o r.alerts
                   /\ pc' = IF pc.i < Len(DetectorOrder)
                            THEN At("call", pc.i + 1) ELSE At("return", 0)
                   /\ error' = error
              ELSE /\ alerts' = alerts
                   /\ pc' = At("raised", 0)
                   /\ error' = r.error
    /\ UNCHANGED <<orig, account_info, result, clock, reports>>

\* return self.prioritize_alerts(alerts)
Return ==
    /\ pc.at = "return"
    /\ result' = prioritize_alerts(alerts)
    /\ pc' = At("returned", 0)
    /\ UNCHANGED <<df, orig, account_info, alerts, error, ret, clock, reports>>

Next == RunDetector \/ Return

Spec == Init /\ [][Next]_vars

(***************************************************************************)
(* SpecSort: prioritize_alerts(alerts) on any list over AlertPalette.      *)
(***************************************************************************)
InitSort ==
    /\ df = EmptyFrame
    /\ orig = df
    /\ account_info = [account_id |-> "ACC-1"]
    /\ pc = At("sort", 0)
    /\ alerts \in SeqsUpTo(AlertPalette, MaxAlerts)
    /\ result = <<>>
    /\ error = NoError
    /\ ret = [d \in Detectors |-> NotRun]
    /\ clock = 0
    /\ reports = <<>>

Prioritize ==
    /\ pc.at = "sort"
    /\ result' = prioritize_alerts(alerts)
    /\ pc' = At("sorted", 0)
    /\ UNCHANGED <<df, orig, account_info, alerts, error, ret, clock, reports>>

NextSort == Prioritize

SpecSort == InitSort /\ [][NextSort]_vars

(***************************************************************************)
(* SpecCalls: a caller that invokes detectors one after another, in any    *)
(* order, on one and the same DataFrame object.  pc.i counts the calls.    *)
(***************************************************************************)
CallDatasets ==
    {Frame(cols, rows) : cols \in ColumnSets, rows \in SeqsUpTo(RowPalette, MaxCallRows)}

InitCalls ==
    /\ df \in CallDatasets
    /\ orig = df
    /\ account_info = [account_id |-> "ACC-12345", account_type |-> "Business Checking"]
    /\ pc = At("idle", 0)
    /\ alerts = <<>>
    /\ result = <<>>
    /\ error = NoError
    /\ ret = [d \in Detectors |-> NotRun]
    /\ clock = 0
    /\ reports = <<>>

\* self.detect_...(df, account_id), for a detector not called before.
Call ==
    /\ pc.at = "idle"
    /\ pc.i < MaxCalls
    /\ \E name \in Detectors :
           /\ ret[name] = NotRun
           /\ LET r == Detect(name, df, AccountId(account_info))
              IN  /\ df' = r.df
                  /\ ret' = [ret EXCEPT ![name] = Observed(r)]
    /\ pc' = At("idle", pc.i + 1)
    /\ UNCHANGED <<orig, account_info, alerts, result, error, clock, reports>>

NextCalls == Call

SpecCalls == InitCalls /\ [][NextCalls]_vars

(***************************************************************************)
(* SpecDetect: one detector called on a fresh dataset.  The datasets are   *)
(* families of k transactions of one kind among n (all five columns        *)
(* present, every date readable), one family per quantity a detector       *)
(* measures, so that each count and share takes every value k/n.           *)
(***************************************************************************)
\* The date text of the day with number ord.
DateOfOrd(ord) == DateStr(MonthOf(Timestamp(ord)), DayOf(Timestamp(ord)))

Plain == Row(DateStr(1, 10), 7, Str_Rent, "B", Deposit)

Set(row, c, v) == [row EXCEPT ![c] = v]

\* k amounts of 100 among n amounts of 7.
RoundFamily(k, n) ==
    [i \in 1..n |-> IF i <= k THEN Set(Plain, "amount", 100) ELSE Plain]

\* k amounts of 150 among n amounts of 125: multiples of 50 that are no
\* multiples of 100, among multiples of 25 that are not round.
FiftyFamily(k, n) ==
    [i \in 1..n |-> Set(Plain, "amount", IF i <= k THEN 150 ELSE 125)]

\* k descriptions "Misc" among n descriptions "Rent".
DescriptionFamily(k, n) ==
    [i \in 1..n |-> IF i <= k THEN Set(Plain, "description", Str_Misc) ELSE Plain]

\* k amounts of 9500 among n amounts of 7.
BandFamily(k, n) ==
    [i \in 1..n |-> IF i <= k THEN Set(Plain, "amount", 9500) ELSE Plain]

\* k transactions on consecutive days, the others five days apart.
BurstFamily(k, n) ==
    [i \in 1..n |-> Set(Plain, "date",
                        DateOfOrd(IF i <= k THEN i ELSE k + 5 * (i - k)))]

\* k transactions on 30 January among n on 10 January.
MonthEndFamily(k, n) ==
    [i \in 1..n |-> IF i <= k THEN Set(Plain, "date", DateStr(1, 30)) ELSE Plain]

\* k transactions on 10 March among n on 10 January.
QuarterFamily(k, n) ==
    [i \in 1..n |-> IF i <= k THEN Set(Plain, "date", DateStr(3, 10)) ELSE Plain]

\* k transactions of 100 with counterparty A among n with counterparty B.
CounterpartyFamily(k, n) ==
    [i \in 1..n |-> Set(Set(Plain, "amount", 100),
                        "counterparty", IF i <= k THEN "A" ELSE "B")]

\* What one transaction of a counterparty amounts to in ThreeWayFamily.
CounterpartyAmounts == {0, 1000, 1500, 3000, 6000}

\* One transaction of a with counterparty A, two of b each with B and one
\* of c with C.
ThreeWayFamily(a, b, c) ==
    << Set(Set(Plain, "amount", b), "counterparty", "B"),
       Set(Set(Plain, "amount", a), "counterparty", "A"),
       Set(Set(Plain, "amount", c), "counterparty", "C"),
       Set(Set(Plain, "amount", b), "counterparty", "B") >>

\* The amounts of a cash and of a non-cash transaction in CashFamily.
CashAmounts == {<<100, 100>>, <<140, 90>>, <<900, 90>>, <<0, 0>>}

Str_Cash == <<"C","a","s","h">>

\* The transaction types of the cash transactions of CashFamily, in turn.
CashTypes == <<Str_ATM, Str_Cash, Withdrawal>>

\* k cash transactions (ATM, Cash, withdrawal in turn) among n deposits.
CashFamily(k, n, amounts) ==
    [i \in 1..n |->
        IF i <= k
        THEN Set(Set(Plain, "transaction_type", CashTypes[(i % 3) + 1]),
                 "amount", amounts[1])
        ELSE Set(Plain, "amount", amounts[2])]

\* k days with a deposit and a withdrawal each, then j days with a deposit.
LayeringFamily(k, j) ==
    [i \in 1..(2 * k + j) |->
        IF i <= 2 * k
        THEN Set(Set(Plain, "date", DateOfOrd((i + 1) \div 2)),
                 "transaction_type", IF i % 2 = 1 THEN Deposit ELSE Withdrawal)
        ELSE Set(Plain, "date", DateOfOrd(i - k))]

\* LayeringFamily with the withdrawal of the first day amounting to 0.
ZeroLegFamily(k, j) ==
    [i \in 1..(2 * k + j) |->
        IF i = 2 THEN Set(LayeringFamily(k, j)[i], "amount", 0)
        ELSE LayeringFamily(k, j)[i]]

\* For each threshold, four amounts of its band [0.9 * t, t), the band's
\* lowest and highest whole amounts among them.
BandAmounts ==
    << <<9100, 9300, 9500, 9700>>, <<4500, 4999, 4750, 4600>>,
       <<2700, 2999, 2800, 2900>>, <<900, 999, 950, 925>> >>

\* Amounts next to the bands and in none of them.
EdgeAmounts == <<10000, 8999, 5000, 4499, 3000, 2699, 1000, 899>>

\* How many transactions a band gets.
BandCounts == {0, 3, 4}

BandRows(b, c) == [i \in 1..c |-> Set(Plain, "amount", BandAmounts[b][i])]

\* c[b] transactions in the band of the b-th threshold, for each of the four
\* thresholds, and the transactions next to the bands.
MixedBandFamily(c) ==
    BandRows(1, c[1]) \o BandRows(2, c[2]) \o BandRows(3, c[3]) \o BandRows(4, c[4])
    \o [i \in 1..Len(EdgeAmounts) |-> Set(Plain, "amount", EdgeAmounts[i])]

DetectDatasets ==
    {Frame(AllColumns, rows) : rows \in
        UNION { {RoundFamily(k, n), FiftyFamily(k, n),
                 DescriptionFamily(k, n), BandFamily(k, n),
                 BurstFamily(k, n), MonthEndFamily(k, n), QuarterFamily(k, n),
                 CounterpartyFamily(k, n)}
                \cup {CashFamily(k, n, a) : a \in CashAmounts}
                \cup (IF 2 * k <= n
                      THEN {LayeringFamily(k, n - 2 * k), ZeroLegFamily(k, n - 2 * k)}
                      ELSE {})
                : k \in 0..MaxN, n \in 0..MaxN }
        \cup {MixedBandFamily(c) : c \in [1..4 -> BandCounts]}
        \cup {ThreeWayFamily(a, b, c) : a, b, c \in CounterpartyAmounts}}

InitDetect ==
    /\ df \in DetectDatasets
    /\ orig = df
    /\ account_info = [account_id |-> "ACC-12345", account_type |-> "Business Checking"]
    /\ pc = At("fresh", 0)
    /\ alerts = <<>>
    /\ result = <<>>
    /\ error = NoError
    /\ ret = [d \in Detectors |-> NotRun]
    /\ clock = 0
    /\ reports = <<>>

\* self.detect_...(df, account_id) on the fresh dataset.
CallAlone ==
    /\ pc.at = "fresh"
    /\ \E name \in Detectors :
           LET r == Detect(name, df, AccountId(account_info))
           IN  /\ df' = r.df
               /\ ret' = [ret EXCEPT ![name] = Observed(r)]
    /\ pc' = At("called", 0)
    /\ UNCHANGED <<orig, account_info, alerts, result, error, clock, reports>>

NextDetect == CallAlone

SpecDetect == InitDetect /\ [][NextDetect]_vars

(***************************************************************************)
(* generate_report(alerts, account_id).  The report string is modelled as  *)
(* the sequence of its lines; a line is its label (or "text" for a fixed   *)
(* line), the text put into it and the number put into it.  The alerts     *)
(* handed to generate_report carry their description.                      *)
(***************************************************************************)
Line(kind, text, num) == [kind |-> kind, text |-> text, num |-> num]

Blank == Line("blank", "", 0)

\* The alert with its description field.
Described(alert, description) ==
    [f \in DOMAIN alert \cup {"description"} |->
        IF f = "description" THEN description ELSE alert[f]]

\* datetime.now() is read in ticks of half a second.
TicksPerSecond == 2

\* strftime('%Y-%m-%d %H:%M:%S'): the time of the clock cut to whole seconds.
Strftime(now) == now \div TicksPerSecond

\* f"{confidence_score:.1f}": the score in tenths, rounded to the nearest (a
\* tie goes to the even one).
Format1f(x) ==
    LET q == (x.n * 10) \div x.d
        r == (x.n * 10) % x.d
    IN  IF 2 * r > x.d \/ (2 * r = x.d /\ q % 2 = 1) THEN q + 1 ELSE q

\* risk_level.name
RiskName(risk_level) ==
    CASE risk_level = LOW -> "LOW"
      [] risk_level = MEDIUM -> "MEDIUM"
      [] risk_level = HIGH -> "HIGH"
      [] risk_level = CRITICAL -> "CRITICAL"

RECURSIVE Concat(_)
Concat(parts) == IF parts = <<>> THEN <<>> ELSE Head(parts) \o Concat(Tail(parts))

ReportHeader(list, account_id, now) ==
    << Line("text", "SLUSH FUND DETECTION REPORT", 0),
       Line("rule", "=", 50),
       Line("Account ID", account_id, 0),
       Line("Analysis Date", "", Strftime(now)),
       Line("Total Alerts", "", Len(list)),
       Blank >>

\* The lines of one alert within its section.
AlertLines(alert) ==
    << Blank,
       Line("Alert Type", alert.alert_type, 0),
       Line("Confidence Score", "%", Format1f(alert.confidence_score)),
       Line("Description", alert.description, 0) >>
    \o (IF alert.amount_involved > 0
        THEN <<Line("Amount Involved", "$", alert.amount_involved)>> ELSE <<>>)
    \o <<Line("Evidence", "", 0)>>
    \o [i \in 1..Len(alert.evidence) |-> Line("bullet", alert.evidence[i], 0)]
    \o <<Blank>>

\* risk_groups[risk_level]: the alerts of the level in the order of the list.
RiskGroup(list, risk_level) == SelectSeq(list, LAMBDA a : a.risk_level = risk_level)

SectionLines(list, risk_level) ==
    LET group == RiskGroup(list, risk_level)
    IN  IF group = <<>> THEN <<>>
        ELSE << Blank,
                Line("section", RiskName(risk_level), Len(group)),
                Line("rule", "-", 30) >>
             \o Concat([i \in 1..Len(group) |-> AlertLines(group[i])])

\* Mutant: the sections written from LOW to CRITICAL.
SectionOrder_ascending == <<LOW, MEDIUM, HIGH, CRITICAL>>

SectionOrder == <<CRITICAL, HIGH, MEDIUM, LOW>>

NoFindings == <<Line("text", "No suspicious patterns detected.", 0)>>

\* Mutant: the test for an empty list left out.
generate_report_without_empty_case(list, account_id, now) ==
    ReportHeader(list, account_id, now)
    \o Concat([i \in 1..Len(SectionOrder) |-> SectionLines(list, SectionOrder[i])])

generate_report(list, account_id, now) ==
    ReportHeader(list, account_id, now)
    \o (IF list = <<>> THEN NoFindings
        ELSE Concat([i \in 1..Len(SectionOrder) |-> SectionLines(list, SectionOrder[i])]))

(***************************************************************************)
(* SpecReport: generate_report called, up to MaxReports times, on one list *)
(* of alerts while the wall clock runs.                                    *)
(***************************************************************************)
\* The alerts the lists of SpecReport are made of.
ReportPalette ==
    { Described(Alert("ACC-1", "Layering Pattern", HIGH, Frac(85, 1),
                      <<"2 days with both deposits and withdrawals",
                        "Potential layering pattern detected">>, 0),
                "Rapid deposit and withdrawal patterns suggest potential layering"),
      Described(Alert("ACC-1", "Counterparty Concentration", HIGH, Frac(80, 1),
                      <<"Counterparty: A">>, 6000),
                "High concentration of transactions with single counterparty"),
      Described(Alert("ACC-1", "Round Number Pattern", MEDIUM, Frac(200, 3),
                      <<"8 out of 12 transactions are round numbers">>, 800),
                "Unusually high percentage of round-number transactions"),
      Described(Alert("ACC-1", "Manual Review", LOW, Frac(90, 1), <<>>, 0),
                "Flagged by an analyst"),
      Described(Alert("ACC-1", "Sanctions Match", CRITICAL, Frac(60, 1),
                      <<"Listed counterparty">>, 120),
                "Counterparty on a sanctions list") }

InitReport ==
    /\ df = EmptyFrame
    /\ orig = df
    /\ account_info \in AccountInfos
    /\ pc = At("report", 0)
    /\ alerts \in SeqsUpTo(ReportPalette, MaxReportAlerts)
    /\ result = <<>>
    /\ error = NoError
    /\ ret = [d \in Detectors |-> NotRun]
    /\ clock = 0
    /\ reports = <<>>

\* report = self.generate_report(alerts, account_id)
GenerateReport ==
    /\ pc.at = "report"
    /\ Len(reports) < MaxReports
    /\ reports' = Append(reports, generate_report(alerts, AccountId(account_info), clock))
    /\ UNCHANGED <<df, orig, account_info, pc, alerts, result, error, ret, clock>>

\* The wall clock advances by one tick.
Tick ==
    /\ pc.at = "report"
    /\ clock < MaxClock
    /\ clock' = clock + 1
    /\ UNCHANGED <<df, orig, account_info, pc, alerts, result, error, ret, reports>>

NextReport == GenerateReport \/ Tick

SpecReport == InitReport /\ [][NextReport]_vars

(***************************************************************************)
(* Claims.                                                                 *)
(***************************************************************************)
\* key(a) = key(b) for the sort key (risk_level.value, confidence_score).
SameKey(a, b) ==
    a.risk_level = b.risk_level /\ a.confidence_score = b.confidence_score

\* C1: prioritize_alerts returns the alerts in descending order of (risk
\* level value, confidence score): of two adjacent alerts the first has the
\* higher risk level, or the same risk level and a confidence score that is
\* not lower.
C1_SortedDescending ==
    pc.at = "sorted" =>
        \A i \in 1..(Len(result) - 1) :
            \/ result[i].risk_level > result[i + 1].risk_level
            \/ /\ result[i].risk_level = result[i + 1].risk_level
               /\ ~FracLess(result[i].confidence_score, result[i + 1].confidence_score)

\* A list of four alerts that came in another order than it was returned in,
\* with three risk levels in it.
C1_Witness ==
    /\ pc.at = "sorted"
    /\ Len(result) = 4
    /\ result # alerts
    /\ Cardinality({result[i].risk_level : i \in 1..Len(result)}) >= 3

SpecExampleInput ==
    << Alert("ACC-1", "first", MEDIUM, Frac(70, 1), <<>>, 0),
       Alert("ACC-1", "first", HIGH, Frac(60, 1), <<>>, 0),
       Alert("ACC-1", "second", HIGH, Frac(60, 1), <<>>, 0),
       Alert("ACC-1", "first", LOW, Frac(90, 1), <<>>, 0) >>

SpecExampleOutput ==
    << Alert("ACC-1", "first", HIGH, Frac(60, 1), <<>>, 0),
       Alert("ACC-1", "second", HIGH, Frac(60, 1), <<>>, 0),
       Alert("ACC-1", "first", MEDIUM, Frac(70, 1), <<>>, 0),
       Alert("ACC-1", "first", LOW, Frac(90, 1), <<>>, 0) >>

\* C2: prioritize_alerts is stable: the alerts of one risk level and one
\* confidence score come out in the order they went in, and the list
\* [MEDIUM/70, HIGH/60 first, HIGH/60 second, LOW/90] comes out as
\* [HIGH/60 first, HIGH/60 second, MEDIUM/70, LOW/90].
C2_Stable ==
    pc.at = "sorted" =>
        /\ \A a \in Range(alerts) :
               SelectSeq(result, LAMBDA x : SameKey(x, a))
                   = SelectSeq(alerts, LAMBDA x : SameKey(x, a))
        /\ alerts = SpecExampleInput => result = SpecExampleOutput

\* The list of the example, sorted.
C2_Witness ==
    /\ pc.at = "sorted"
    /\ alerts = SpecExampleInput
    /\ result = SpecExampleOutput

\* The detector order the specification fixes, and the place in it of the
\* detector that emits each alert type.
FixedOrder ==
    <<"round_number", "description", "frequency", "threshold_avoidance",
      "end_of_period", "counterparty", "cash_intensity", "layering">>

RankOf(name) == CHOOSE i \in 1..Len(FixedOrder) : FixedOrder[i] = name

EmitRank(alert_type) ==
    CASE alert_type = "Round Number Pattern" -> 1
      [] alert_type \in {"Vague Transaction Descriptions",
                         "Repeated Transaction Descriptions"} -> 2
      [] alert_type = "Burst Transaction Pattern" -> 3
      [] alert_type = "Threshold Avoidance" -> 4
      [] alert_type \in {"End-of-Period Clustering", "Quarter-End Pattern"} -> 5
      [] alert_type = "Counterparty Concentration" -> 6
      [] alert_type = "High Cash Activity" -> 7
      [] alert_type = "Layering Pattern" -> 8

RECURSIVE ConcatInFixedOrder(_)
ConcatInFixedOrder(i) ==
    IF i > Len(FixedOrder) THEN <<>>
    ELSE ret[FixedOrder[i]].alerts \o ConcatInFixedOrder(i + 1)

\* C3: analyze_account runs the detectors in the order round-number,
\* description, frequency, threshold-avoidance, end-of-period, counterparty,
\* cash-intensity, layering, its list is at every point the concatenation of
\* their lists in that order, it prioritizes only after all eight have run,
\* and in the returned list alerts of equal risk level and confidence score
\* stand in detector order.
C3_FixedDetectorOrder ==
    /\ \A d1, d2 \in Detectors :
           (ret[d2] # NotRun /\ RankOf(d1) < RankOf(d2)) => ret[d1] # NotRun
    /\ alerts = ConcatInFixedOrder(1)
    /\ pc.at \in {"return", "returned"} => \A d \in Detectors : ret[d].status = "returned"
    /\ pc.at = "returned" =>
           /\ result = prioritize_alerts(ConcatInFixedOrder(1))
           /\ \A i, j \in 1..Len(result) :
                  (i < j /\ SameKey(result[i], result[j]))
                      => EmitRank(result[i].alert_type) <= EmitRank(result[j].alert_type)

\* A returned list in which a HIGH/80 Threshold Avoidance alert stands right
\* before a HIGH/80 Counterparty Concentration alert.
C3_Witness ==
    /\ pc.at = "returned"
    /\ \E i \in 1..(Len(result) - 1) :
           /\ result[i].alert_type = "Threshold Avoidance"
           /\ result[i + 1].alert_type = "Counterparty Concentration"
           /\ SameKey(result[i], result[i + 1])

\* C4: the detectors leave the caller's dataset as it was: the same columns
\* and the same cell values before and after every call.
C4_DatasetUnchanged == df = orig

\* C6: a detector that raises does not end the analysis: the remaining
\* detectors still run, and analyze_account returns the prioritized alerts
\* of the detectors that did not fail.
C6_FailureIsolated ==
    (\E d \in Detectors : ret[d].status = "raised") =>
        /\ pc.at # "raised"
        /\ pc.at = "returned" =>
               /\ \A d \in Detectors : ret[d] # NotRun
               /\ result = prioritize_alerts(ConcatInFixedOrder(1))

\* The columns each detector reads.
Needs(name) ==
    CASE name = "round_number" -> {"amount"}
      [] name = "description" -> {"description", "amount"}
      [] name = "frequency" -> {"date"}
      [] name = "threshold_avoidance" -> {"amount"}
      [] name = "end_of_period" -> {"date", "amount"}
      [] name = "counterparty" -> {"counterparty", "amount"}
      [] name = "cash_intensity" -> {"transaction_type", "amount"}
      [] name = "layering" -> {"date", "transaction_type", "amount"}

ReturnedNothing == [status |-> "returned", alerts |-> <<>>, error |-> NoError]

\* C7: a detector run on a dataset that lacks a column it needs returns an
\* empty alert list and raises nothing.
C7_MissingColumnNoOp ==
    \A d \in Detectors :
        (ret[d] # NotRun /\ ~(Needs(d) \subseteq orig.cols)) => ret[d] = ReturnedNothing

\* C8: on a dataset of 0 rows with all columns, whatever the account
\* metadata, every detector returns no alerts and raises nothing (no
\* division by zero, no index out of bounds), and analyze_account returns
\* the empty list.
C8_EmptyDataset ==
    (orig.rows = <<>> /\ orig.cols = AllColumns) =>
        /\ \A d \in Detectors : ret[d] # NotRun => ret[d] = ReturnedNothing
        /\ pc.at # "raised"
        /\ pc.at = "returned" => result = <<>>

\* analyze_account has returned for an empty dataset of an account whose
\* metadata names no account id, all eight detectors having run.
C8_Witness ==
    /\ orig.rows = <<>>
    /\ orig.cols = AllColumns
    /\ "account_id" \notin DOMAIN account_info
    /\ pc.at = "returned"
    /\ \A d \in Detectors : ret[d] = ReturnedNothing
    /\ result = <<>>

UnreadableDates(frame) ==
    IF "date" \in frame.cols
    THEN {frame.rows[i]["date"] : i \in {j \in 1..Len(frame.rows) :
                                             ~Parseable(frame.rows[j]["date"])}}
    ELSE {}

\* C9 (for a dataset with all five columns): with an unparseable date in the
\* dataset, analyze_account ends in a validation error that names the
\* column date and the offending value; it returns no alert list and ends
\* in no other error.
C9_DateValidationError ==
    (/\ orig.cols = AllColumns
     /\ UnreadableDates(orig) # {}
     /\ pc.at \in {"returned", "raised"}) =>
        /\ pc.at = "raised"
        /\ error.type = "ValidationError"
        /\ error.column = "date"
        /\ error.value \in UnreadableDates(orig)

\* C5: whatever detectors ran before it on the same DataFrame object, a
\* detector returns (or raises) what it does when run alone on a fresh copy
\* of the original dataset.
C5_OrderIndependent ==
    \A d \in Detectors :
        ret[d] # NotRun => ret[d] = Observed(Detect(d, orig, AccountId(account_info)))

\* The three detectors that write to the frame have all run, in some order,
\* each returned an alert, and the frame is no longer the original one.
C5_Witness ==
    /\ df # orig
    /\ \A d \in {"frequency", "end_of_period", "layering"} :
           ret[d].status = "returned" /\ ret[d].alerts # <<>>

(***************************************************************************)
(* What each check measures, taken from the original dataset (all columns  *)
(* present, dates readable).                                               *)
(***************************************************************************)
Total == Len(orig.rows)

RowIndices == 1..Len(orig.rows)

\* The amounts of the rows with the given indices, summed.
AmountAt(indices) ==
    SumSeq([i \in 1..Len(orig.rows) |->
               IF i \in indices THEN orig.rows[i]["amount"] ELSE 0])

RoundCount == Cardinality({i \in RowIndices : orig.rows[i]["amount"] % 50 = 0})

VagueCount == Cardinality({i \in RowIndices : IsVague(orig.rows[i]["description"])})

MaxRepeat ==
    LET descs == Column(orig, "description")
        counts == {Count(descs, d) : d \in Range(descs)} \cup {0}
    IN  CHOOSE c \in counts : \A o \in counts : o <= c

BandCount(t) ==
    Cardinality({i \in RowIndices : /\ 10 * orig.rows[i]["amount"] >= 9 * t
                                    /\ orig.rows[i]["amount"] < t})

BurstCount == RecentActivity(ParseDateColumn(orig))

MonthEndCount == Cardinality({i \in RowIndices : orig.rows[i]["date"].d >= 28})

QuarterCount == Cardinality({i \in RowIndices : orig.rows[i]["date"].m \in {3, 6, 9, 12}})

TotalAmount == AmountAt(RowIndices)

TopAmount ==
    LET sums == {AmountAt({i \in RowIndices : orig.rows[i]["counterparty"] = c}) :
                    c \in Range(Column(orig, "counterparty"))} \cup {0}
    IN  CHOOSE s \in sums : \A o \in sums : o <= s

CashRows == {i \in RowIndices : IsCashLike(orig.rows[i]["transaction_type"])}

CashCount == Cardinality(CashRows)

CashAmount == AmountAt(CashRows)

DayOfRow(i) == <<orig.rows[i]["date"].m, orig.rows[i]["date"].d>>

ActiveDays == {DayOfRow(i) : i \in RowIndices}

LayeringDays ==
    {day \in ActiveDays :
        /\ AmountAt({i \in RowIndices : /\ DayOfRow(i) = day
                                         /\ orig.rows[i]["transaction_type"] = Deposit}) > 0
        /\ AmountAt({i \in RowIndices : /\ DayOfRow(i) = day
                                         /\ orig.rows[i]["transaction_type"] = Withdrawal}) > 0}

Emitted(d, alert_type) ==
    \E i \in 1..Len(ret[d].alerts) : ret[d].alerts[i].alert_type = alert_type

\* The check of detector d that emits alert_type has an exclusive threshold:
\* no alert at the threshold, an alert above it.
Exclusive(d, alert_type, atThreshold, above) ==
    ret[d] # NotRun =>
        /\ ret[d].status = "returned"
        /\ atThreshold => ~Emitted(d, alert_type)
        /\ above => Emitted(d, alert_type)

\* The checks other than the round-number one.
ExclusiveChecks ==
    /\ Exclusive("description", "Vague Transaction Descriptions",
                 Total > 0 /\ 10 * VagueCount = 3 * Total, 10 * VagueCount > 3 * Total)
    /\ Exclusive("description", "Repeated Transaction Descriptions",
                 MaxRepeat = 5, MaxRepeat > 5)
    /\ \A t \in Range(thresholds) :
           ret["threshold_avoidance"] # NotRun =>
               LET n == Cardinality({i \in 1..Len(ret["threshold_avoidance"].alerts) :
                            ret["threshold_avoidance"].alerts[i].evidence[2] = t})
               IN  /\ BandCount(t) = 3 => n = 0
                   /\ BandCount(t) > 3 => n = 1
    /\ Exclusive("frequency", "Burst Transaction Pattern",
                 Total > 0 /\ 5 * BurstCount = 2 * Total, 5 * BurstCount > 2 * Total)
    /\ Exclusive("end_of_period", "End-of-Period Clustering",
                 Total > 0 /\ 4 * MonthEndCount = Total, 4 * MonthEndCount > Total)
    /\ Exclusive("end_of_period", "Quarter-End Pattern",
                 Total > 0 /\ 5 * QuarterCount = 2 * Total, 5 * QuarterCount > 2 * Total)
    /\ Exclusive("counterparty", "Counterparty Concentration",
                 TotalAmount > 0 /\ 2 * TopAmount = TotalAmount, 2 * TopAmount > TotalAmount)
    /\ Exclusive("cash_intensity", "High Cash Activity",
                 /\ TotalAmount > 0
                 /\ 10 * CashCount = 3 * Total
                 /\ 5 * CashAmount = 2 * TotalAmount,
                 10 * CashCount > 3 * Total \/ 5 * CashAmount > 2 * TotalAmount)
    /\ Exclusive("layering", "Layering Pattern",
                 /\ ActiveDays # {}
                 /\ 10 * Cardinality(LayeringDays) = 3 * Cardinality(ActiveDays),
                 10 * Cardinality(LayeringDays) > 3 * Cardinality(ActiveDays))

\* C10 as stated: every check's threshold is exclusive, a count or share
\* exactly at the threshold produces no alert from the check and any value
\* strictly above it produces one; for the round-number check the share of
\* round amounts against 60%.
C10_ExclusiveAsStated ==
    /\ Exclusive("round_number", "Round Number Pattern",
                 Total > 0 /\ 5 * RoundCount = 3 * Total, 5 * RoundCount > 3 * Total)
    /\ ExclusiveChecks

\* C10 as amended: as stated, except that a round share above 60% produces
\* the round-number alert only when the dataset has more than 10
\* transactions.
C10_ExclusiveThresholds ==
    /\ Exclusive("round_number", "Round Number Pattern",
                 Total > 0 /\ 5 * RoundCount = 3 * Total,
                 Total > 10 /\ 5 * RoundCount > 3 * Total)
    /\ ExclusiveChecks

\* The round-number detector returned no alert for 15 transactions of which
\* 9, exactly 60%, are round.
C10_Witness ==
    /\ ret["round_number"].status = "returned"
    /\ Total = 15
    /\ RoundCount = 9
    /\ ret["round_number"].alerts = <<>>

(***************************************************************************)
(* The detectors' contracts, each against what the original dataset        *)
(* measures.                                                               *)
(***************************************************************************)
\* The one alert a detector returned.
Only(d) == ret[d].alerts[1]

CallerId == AccountId(account_info)

RoundRows == {i \in RowIndices : orig.rows[i]["amount"] % 50 = 0}

\* min(round_count / total * 100, 95)
RoundConfidence ==
    IF 100 * RoundCount < 95 * Total THEN Frac(100 * RoundCount, Total) ELSE Frac(95, 1)

\* C11: the round-number detector returns exactly one alert if the dataset
\* has more than 10 transactions and more than 60% of them are round
\* (amount a multiple of 50 or of 100), and no alert otherwise; the alert is
\* MEDIUM for a share below 80% and HIGH otherwise, its confidence is
\* min(share * 100, 95) and its amount_involved the sum of the round amounts.
C11_RoundNumberAlert ==
    ret["round_number"] # NotRun =>
        /\ ret["round_number"].status = "returned"
        /\ IF Total > 10 /\ 5 * RoundCount > 3 * Total
           THEN /\ Len(ret["round_number"].alerts) = 1
                /\ Only("round_number").account_id = CallerId
                /\ Only("round_number").alert_type = "Round Number Pattern"
                /\ Only("round_number").risk_level =
                       (IF 5 * RoundCount < 4 * Total THEN MEDIUM ELSE HIGH)
                /\ Only("round_number").confidence_score = RoundConfidence
                /\ Only("round_number").amount_involved = AmountAt(RoundRows)
           ELSE ret["round_number"].alerts = <<>>

\* 20 transactions, 13 of them multiples of 100 and the others not round:
\* one MEDIUM alert of confidence 65.
C11_Witness ==
    /\ ret["round_number"].status = "returned"
    /\ Total = 20
    /\ Cardinality({i \in RowIndices : orig.rows[i]["amount"] % 100 = 0}) = 13
    /\ RoundCount = 13
    /\ Len(ret["round_number"].alerts) = 1
    /\ Only("round_number").risk_level = MEDIUM
    /\ Only("round_number").confidence_score = Frac(65, 1)
    /\ Only("round_number").amount_involved = 1300

\* The thresholds in the order in which their alerts are to come.
StatedThresholds == <<10000, 5000, 3000, 1000>>

\* The transactions with 0.9 * t <= amount < t.
BandRowsOf(t) ==
    {i \in RowIndices : /\ 10 * orig.rows[i]["amount"] >= 9 * t
                        /\ orig.rows[i]["amount"] < t}

\* C12: the threshold-avoidance detector returns one alert for each
\* threshold t of 10000, 5000, 3000, 1000 that has more than 3 transactions
\* with amount in [0.9 * t, t), and none for the other thresholds; the alerts
\* come in that order, each HIGH for t >= 10000 and MEDIUM otherwise, of
\* confidence 80 and with amount_involved the sum of the amounts in its band.
C12_ThresholdAlerts ==
    ret["threshold_avoidance"] # NotRun =>
        /\ ret["threshold_avoidance"].status = "returned"
        /\ LET fired == SelectSeq(StatedThresholds, LAMBDA t : BandCount(t) > 3)
               a == ret["threshold_avoidance"].alerts
           IN  /\ Len(a) = Len(fired)
               /\ \A i \in 1..Len(fired) :
                      /\ a[i].account_id = CallerId
                      /\ a[i].alert_type = "Threshold Avoidance"
                      /\ a[i].evidence[2] = fired[i]
                      /\ a[i].risk_level = (IF fired[i] >= 10000 THEN HIGH ELSE MEDIUM)
                      /\ a[i].confidence_score = Frac(80, 1)
                      /\ a[i].amount_involved = AmountAt(BandRowsOf(fired[i]))

\* The amounts 9100, 9300, 9500, 9700 and nothing else in a band: one HIGH
\* alert with amount_involved 37600.
C12_Witness ==
    /\ ret["threshold_avoidance"].status = "returned"
    /\ {orig.rows[i]["amount"] : i \in BandRowsOf(10000)} = {9100, 9300, 9500, 9700}
    /\ BandCount(10000) = 4
    /\ \A t \in {5000, 3000, 1000} : BandCount(t) = 0
    /\ Len(ret["threshold_avoidance"].alerts) = 1
    /\ Only("threshold_avoidance").risk_level = HIGH
    /\ Only("threshold_avoidance").confidence_score = Frac(80, 1)
    /\ Only("threshold_avoidance").amount_involved = 37600

\* All four thresholds have fired, in the order 10000, 5000, 3000, 1000.
C12_AllFour ==
    /\ Len(ret["threshold_avoidance"].alerts) = 4
    /\ [i \in 1..4 |-> ret["threshold_avoidance"].alerts[i].evidence[2]] = StatedThresholds

\* What each counterparty of the dataset totals.
CounterpartyTotal(c) ==
    AmountAt({i \in RowIndices : orig.rows[i]["counterparty"] = c})

Counterparties == Range(Column(orig, "counterparty"))

\* C13: the counterparty-concentration detector returns at most one alert,
\* and returns it exactly if the largest total of a counterparty is strictly
\* more than 50% of the dataset's total amount; the alert is HIGH, of
\* confidence 80, its amount_involved is that total, and its evidence names
\* the one counterparty that holds the total and the share in percent.
C13_CounterpartyAlert ==
    ret["counterparty"] # NotRun =>
        /\ ret["counterparty"].status = "returned"
        /\ Len(ret["counterparty"].alerts) <= 1
        /\ Len(ret["counterparty"].alerts) = 1 <=> 2 * TopAmount > TotalAmount
        /\ Len(ret["counterparty"].alerts) = 1 =>
               /\ Only("counterparty").account_id = CallerId
               /\ Only("counterparty").alert_type = "Counterparty Concentration"
               /\ Only("counterparty").risk_level = HIGH
               /\ Only("counterparty").confidence_score = Frac(80, 1)
               /\ Only("counterparty").amount_involved = TopAmount
               /\ {c \in Counterparties : CounterpartyTotal(c) = TopAmount}
                      = {Only("counterparty").evidence[2]}
               /\ LET share == Frac(TopAmount, TotalAmount)
                  IN  Only("counterparty").evidence[1]
                          = (20000 * share.n + share.d) \div (2 * share.d)

\* Counterparty A holds 6000 of a total of 10000: one HIGH alert with
\* amount_involved 6000 and a share of 60.00%.
C13_Witness ==
    /\ ret["counterparty"].status = "returned"
    /\ TotalAmount = 10000
    /\ CounterpartyTotal("A") = 6000
    /\ Cardinality(Counterparties) = 3
    /\ Len(ret["counterparty"].alerts) = 1
    /\ Only("counterparty").risk_level = HIGH
    /\ Only("counterparty").amount_involved = 6000
    /\ Only("counterparty").evidence = <<6000, "A">>

\* The words that make a transaction type cash-like, as stated.
StatedCashWords ==
    << <<"c","a","s","h">>, <<"a","t","m">>,
       <<"w","i","t","h","d","r","a","w","a","l">> >>

StatedCashRows ==
    {i \in RowIndices :
        ContainsAny(StrLower(orig.rows[i]["transaction_type"]), StatedCashWords)}

\* C14: the cash-intensity detector returns exactly one alert if more than
\* 30% of the transactions are cash-like (type containing cash, atm or
\* withdrawal in any case) or the cash-like amounts are more than 40% of the
\* total amount, and no alert otherwise; the alert is HIGH if the cash-like
\* amounts are more than 60% of the total amount and MEDIUM otherwise, of
\* confidence 75 and with amount_involved the sum of the cash-like amounts.
C14_CashAlert ==
    ret["cash_intensity"] # NotRun =>
        /\ ret["cash_intensity"].status = "returned"
        /\ IF \/ 10 * Cardinality(StatedCashRows) > 3 * Total
              \/ 5 * AmountAt(StatedCashRows) > 2 * TotalAmount
           THEN /\ Len(ret["cash_intensity"].alerts) = 1
                /\ Only("cash_intensity").account_id = CallerId
                /\ Only("cash_intensity").alert_type = "High Cash Activity"
                /\ Only("cash_intensity").risk_level =
                       (IF 5 * AmountAt(StatedCashRows) > 3 * TotalAmount
                        THEN HIGH ELSE MEDIUM)
                /\ Only("cash_intensity").confidence_score = Frac(75, 1)
                /\ Only("cash_intensity").amount_involved = AmountAt(StatedCashRows)
           ELSE ret["cash_intensity"].alerts = <<>>

\* An alert that only the count of the cash-like transactions brought about
\* (their amounts are no more than 40% of the total) is MEDIUM.
C14_Witness ==
    /\ ret["cash_intensity"].status = "returned"
    /\ 10 * Cardinality(StatedCashRows) > 3 * Total
    /\ 5 * AmountAt(StatedCashRows) <= 2 * TotalAmount
    /\ {orig.rows[i]["transaction_type"] : i \in StatedCashRows}
           = {Str_ATM, Str_Cash, Withdrawal}
    /\ Len(ret["cash_intensity"].alerts) = 1
    /\ Only("cash_intensity").risk_level = MEDIUM

\* An alert that only the amounts brought about, and which is HIGH.
C14_ByAmount ==
    /\ ret["cash_intensity"].status = "returned"
    /\ 10 * Cardinality(StatedCashRows) <= 3 * Total
    /\ Len(ret["cash_intensity"].alerts) = 1
    /\ Only("cash_intensity").risk_level = HIGH

\* C15: the layering detector returns exactly one alert, HIGH and of
\* confidence 85, if the calendar days with both a positive deposit total
\* and a positive withdrawal total are strictly more than 30% of the days
\* with a transaction, and no alert otherwise (so none when the dataset has
\* no deposit or no withdrawal).
C15_LayeringAlert ==
    ret["layering"] # NotRun =>
        /\ ret["layering"].status = "returned"
        /\ IF 10 * Cardinality(LayeringDays) > 3 * Cardinality(ActiveDays)
           THEN /\ Len(ret["layering"].alerts) = 1
                /\ Only("layering").account_id = CallerId
                /\ Only("layering").alert_type = "Layering Pattern"
                /\ Only("layering").risk_level = HIGH
                /\ Only("layering").confidence_score = Frac(85, 1)
                /\ Only("layering").evidence = <<Cardinality(LayeringDays)>>
           ELSE ret["layering"].alerts = <<>>

\* An alert for a dataset that has days with a deposit only, and a day whose
\* withdrawals total 0, besides the days with both.
C15_Witness ==
    /\ ret["layering"].status = "returned"
    /\ \E i \in RowIndices : /\ orig.rows[i]["transaction_type"] = Withdrawal
                             /\ orig.rows[i]["amount"] = 0
    /\ Cardinality(ActiveDays) > Cardinality(LayeringDays) + 1
    /\ Len(ret["layering"].alerts) = 1
    /\ Only("layering").risk_level = HIGH
    /\ Only("layering").confidence_score = Frac(85, 1)

\* No alert for a dataset of withdrawals without any deposit.
C15_NoDeposit ==
    /\ ret["layering"].status = "returned"
    /\ Total > 0
    /\ \E i \in RowIndices : orig.rows[i]["transaction_type"] = Withdrawal
    /\ \A i \in RowIndices : orig.rows[i]["transaction_type"] # Deposit
    /\ ret["layering"].alerts = <<>>

(***************************************************************************)
(* The reporter's contracts, read off the lines of the report.             *)
(***************************************************************************)
\* The risk levels in the order in which their sections are to come.
StatedSections == <<CRITICAL, HIGH, MEDIUM, LOW>>

SectionTitle(level) ==
    CASE level = CRITICAL -> "CRITICAL"
      [] level = HIGH -> "HIGH"
      [] level = MEDIUM -> "MEDIUM"
      [] level = LOW -> "LOW"

Positions(r) == [i \in 1..Len(r) |-> i]

\* The positions of the lines of the given kind, in order.
LinesOf(r, kind) == SelectSeq(Positions(r), LAMBDA i : r[i].kind = kind)

\* The title of the section the line at position i stands in.
SectionAt(r, i) ==
    LET heads == {s \in 1..i : r[s].kind = "section"}
    IN  IF heads = {} THEN "none"
        ELSE r[CHOOSE s \in heads : \A o \in heads : o <= s].text

\* The alert that starts at position i, as the report shows it: its type, its
\* description and its evidence, up to the blank line that ends it.
ShownAt(r, i) ==
    LET ends == {e \in i..Len(r) : r[e].kind = "blank"}
        last == CHOOSE e \in ends : \A o \in ends : e <= o
        block == SubSeq(r, i, last)
        bullets == SelectSeq(block, LAMBDA l : l.kind = "bullet")
    IN  [alert_type |-> r[i].text,
         description |-> SelectSeq(block, LAMBDA l : l.kind = "Description")[1].text,
         evidence |-> [k \in 1..Len(bullets) |-> bullets[k].text]]

\* The alerts shown in the section of the given title, in order.
ShownIn(r, title) ==
    LET at == SelectSeq(LinesOf(r, "Alert Type"), LAMBDA i : SectionAt(r, i) = title)
    IN  [k \in 1..Len(at) |-> ShownAt(r, at[k])]

\* The alerts of the list that have the given level, in the order of the
\* list, as they are to be shown.
ToShow(list, level) ==
    LET group == SelectSeq(list, LAMBDA a : a.risk_level = level)
    IN  [k \in 1..Len(group) |->
            [alert_type |-> group[k].alert_type,
             description |-> group[k].description,
             evidence |-> group[k].evidence]]

SectionsAsStated(r, list) ==
    LET heads == LinesOf(r, "section")
        levels == SelectSeq(StatedSections,
                            LAMBDA level : \E k \in 1..Len(list) : list[k].risk_level = level)
    IN  /\ [k \in 1..Len(heads) |-> r[heads[k]].text]
               = [k \in 1..Len(levels) |-> SectionTitle(levels[k])]
        /\ \A k \in 1..Len(StatedSections) :
               ShownIn(r, SectionTitle(StatedSections[k])) = ToShow(list, StatedSections[k])
        /\ Len(LinesOf(r, "Alert Type")) = Len(list)
        /\ \A k \in 1..Len(heads) :
               r[heads[k]].num = Len(ShownIn(r, r[heads[k]].text))
        /\ r[LinesOf(r, "Total Alerts")[1]].num
               = SumSeq([k \in 1..Len(heads) |-> r[heads[k]].num])

\* C16: a report of a non-empty list of alerts has a section for each risk
\* level that has an alert and for no other, in the order CRITICAL, HIGH,
\* MEDIUM, LOW; each alert of the list is shown once, in the section of its
\* level and in the list's order among the alerts of that section; and the
\* total of the header is the sum of the counts of the sections.
C16_ReportSections ==
    \A j \in 1..Len(reports) : alerts # <<>> => SectionsAsStated(reports[j], alerts)

\* A report of a list that is not in descending order of risk and has two
\* alerts of one level.
C16_Witness ==
    /\ Len(reports) >= 1
    /\ \E i, k \in 1..Len(alerts) : i < k /\ alerts[i].risk_level < alerts[k].risk_level
    /\ \E i, k \in 1..Len(alerts) :
           i < k /\ alerts[i].risk_level = alerts[k].risk_level /\ alerts[i] # alerts[k]
    /\ Len(LinesOf(reports[1], "section")) = 2

\* C17: generate_report returns for an empty list of alerts, whatever the
\* account id: the report is the header (account id, time of generation,
\* a total of 0 alerts) followed by the line "No suspicious patterns
\* detected." alone, without any section.
C17_EmptyReport ==
    /\ error = NoError
    /\ \A j \in 1..Len(reports) :
           alerts = <<>> =>
               LET r == reports[j]
               IN  /\ Len(r) = 7
                   /\ r[3] = Line("Account ID", AccountId(account_info), 0)
                   /\ r[4].kind = "Analysis Date"
                   /\ r[5] = Line("Total Alerts", "", 0)
                   /\ r[6] = Blank
                   /\ r[7] = Line("text", "No suspicious patterns detected.", 0)
                   /\ LinesOf(r, "section") = <<>>
                   /\ LinesOf(r, "Alert Type") = <<>>

\* Reports of the empty list for the account id 'unknown'.
C17_Witness ==
    /\ alerts = <<>>
    /\ AccountId(account_info) = "unknown"
    /\ Len(reports) = 2

\* C18: two calls of generate_report on the same list of alerts and account
\* id return the same report, whatever happened between the calls, the wall
\* clock advancing included.
C18_SameReportTwice ==
    \A i, j \in 1..Len(reports) : reports[i] = reports[j]

InRange(confidence_score) ==
    /\ confidence_score.d > 0
    /\ 0 <= confidence_score.n
    /\ confidence_score.n <= 100 * confidence_score.d

\* C19: every alert a detector returns, and so every alert of the list that
\* analyze_account collects and returns, has a confidence_score from 0 to
\* 100.
C19_ConfidenceInRange ==
    /\ \A d \in Detectors : \A i \in 1..Len(ret[d].alerts) :
           InRange(ret[d].alerts[i].confidence_score)
    /\ \A i \in 1..Len(alerts) : InRange(alerts[i].confidence_score)
    /\ \A i \in 1..Len(result) : InRange(result[i].confidence_score)

\* The round-number alert of a dataset whose amounts are all round: the
\* share of 100% capped to a confidence of 95.
C19_Witness ==
    /\ Len(ret["round_number"].alerts) = 1
    /\ RoundCount = Total
    /\ Only("round_number").confidence_score = Frac(95, 1)

\* C20: prioritize_alerts returns a permutation of the list it is given (of
\* every alert as many as the list has, none altered), and leaves the list
\* itself as it was.
C20_Permutation ==
    /\ [](pc.at = "sorted" =>
            /\ Len(result) = Len(alerts)
            /\ \A a \in Range(alerts) \cup Range(result) :
                   Count(result, a) = Count(alerts, a))
    /\ [][alerts' = alerts]_vars

\* A sorted list that holds one alert twice and differs from the list given.
C20_Witness ==
    /\ pc.at = "sorted"
    /\ \E i, j \in 1..Len(alerts) : i < j /\ alerts[i] = alerts[j]
    /\ result # alerts

\* The four bands as stated, each from its lower end up to its threshold.
StatedBands == << <<9000, 10000>>, <<4500, 5000>>, <<2700, 3000>>, <<900, 1000>> >>

\* The transactions with an amount in the b-th band.
InBand(b) ==
    {i \in RowIndices : /\ StatedBands[b][1] <= orig.rows[i]["amount"]
                        /\ orig.rows[i]["amount"] < StatedBands[b][2]}

\* C21: the bands [9000, 10000), [4500, 5000), [2700, 3000) and [900, 1000)
\* are pairwise disjoint: every transaction lies in at most one of them,
\* each Threshold Avoidance alert counts and sums the transactions of its
\* own band only, and the amount_involved of all Threshold Avoidance alerts
\* of a run, summed, does not exceed the total amount of the dataset.
C21_BandsDisjoint ==
    ret["threshold_avoidance"] # NotRun =>
        LET a == ret["threshold_avoidance"].alerts
        IN  /\ ret["threshold_avoidance"].status = "returned"
            /\ \A i \in RowIndices :
                   Cardinality({b \in 1..Len(StatedBands) : i \in InBand(b)}) <= 1
            /\ \A k \in 1..Len(a) :
                   \E b \in 1..Len(StatedBands) :
                       /\ a[k].evidence[2] = StatedBands[b][2]
                       /\ a[k].evidence[1] = Cardinality(InBand(b))
                       /\ a[k].amount_involved = AmountAt(InBand(b))
            /\ SumSeq([k \in 1..Len(a) |-> a[k].evidence[1]]) <= Total
            /\ SumSeq([k \in 1..Len(a) |-> a[k].amount_involved]) <= TotalAmount

\* Alerts for all four thresholds, of a dataset that also has transactions
\* outside the bands: together they involve 71622 of a total of 107718.
C21_Witness ==
    /\ ret["threshold_avoidance"].status = "returned"
    /\ Len(ret["threshold_avoidance"].alerts) = 4
    /\ \E i \in RowIndices : \A b \in 1..Len(StatedBands) : i \notin InBand(b)
    /\ SumSeq([k \in 1..4 |-> ret["threshold_avoidance"].alerts[k].amount_involved])
           < TotalAmount

\* The alerts of detector d that show a share which is not defined.
UndefinedShareAlerts(d) ==
    {i \in 1..Len(ret[d].alerts) :
        \E k \in 1..Len(ret[d].alerts[i].evidence) : ret[d].alerts[i].evidence[k] = NaN}

\* C22: on a dataset that has transactions and whose amounts are all 0, no
\* detector divides by the zero total: the counterparty-concentration
\* detector returns and returns no alert, and the cash-intensity detector,
\* also with cash-like transactions in the dataset, returns and returns no
\* alert that comes with an undefined share.
C22_NoZeroDenominator ==
    (Total > 0 /\ TotalAmount = 0) =>
        /\ ret["counterparty"] # NotRun =>
               /\ ret["counterparty"].status = "returned"
               /\ ret["counterparty"].alerts = <<>>
        /\ ret["cash_intensity"] # NotRun =>
               /\ ret["cash_intensity"].status = "returned"
               /\ UndefinedShareAlerts("cash_intensity") = {}

\* The counterparty-concentration detector has returned without an alert for
\* a dataset of transactions that all amount to 0.
C22_CounterpartyOnZero ==
    /\ Total > 0
    /\ TotalAmount = 0
    /\ ret["counterparty"].status = "returned"
    /\ ret["counterparty"].alerts = <<>>

====
